---------------------------- MODULE Spec2Model ----------------------------
(* A model of engine/kube/util.go of drone-runtime: the translation of one  *)
(* pipeline step (engine.Step) of a specification (engine.Spec) into the    *)
(* Kubernetes objects that run it: a pod, a service, a namespace.           *)
(*                                                                          *)
(* Representation.                                                          *)
(*   - a Go struct is a record with the struct's field names;               *)
(*   - a Go slice is a sequence (nil and empty are both <<>>: the code only *)
(*     ranges over slices, appends to them and takes len);                  *)
(*   - a Go pointer is Ptr(v) or NilPtr;                                    *)
(*   - a Go string is a TLA+ string, and fmt.Sprintf is \o;                 *)
(*   - the output of strconv.Itoa is a sequence of one-character strings,   *)
(*     so that the digits it produces can be read back;                     *)
(*   - a path handed to path.Base / path.Dir is the sequence of the         *)
(*     segments of a cleaned absolute path: <<"etc","app.conf">> is         *)
(*     "/etc/app.conf";                                                     *)
(*   - a field the code fills with a reference into its INPUT (a map, a     *)
(*     slice, the address of a field) is the address of the input's heap    *)
(*     cell; a field it fills with a fresh allocation is held by value.     *)
EXTENDS Integers, Sequences, FiniteSets, TLC

(* spec, step: the inputs (engine.Spec, engine.Step) of the calls;           *)
(* heap: the cells the inputs reach by reference, by address;               *)
(* pod, svc, ns: <<>> until toPod, toService, toNamespace is called, then   *)
(*   the one-element sequence of the pointer the latest call returned;      *)
(* last: the latest step taken: the function called or the field written.   *)
VARIABLES spec, step, heap, pod, svc, ns, last

vars == <<spec, step, heap, pod, svc, ns, last>>

----------------------------------------------------------------------------
(* Bounds of the checked inputs.                                            *)

MaxItems == 2
MaxMounts == 2
MaxPorts == 2

----------------------------------------------------------------------------
(* Pointers and small helpers.                                              *)

NilPtr == [nil |-> TRUE]

Ptr(v) == [nil |-> FALSE, v |-> v]

SeqsUpTo(S, n) == UNION {[1..k -> S] : k \in 0..n}

(* The orders in which a range over a Go map with key set S may visit it.   *)
Orders(S) == {o \in [1..Cardinality(S) -> S] : \A k \in S : \E i \in DOMAIN o : o[i] = k}

envAutomountServiceAccountToken == "PLUGIN_AUTOMOUNTSERVICEACCOUNTTOKEN"

----------------------------------------------------------------------------
(* engine.LookupSecret / LookupFile / LookupVolume: the first registered    *)
(* entity whose Metadata.Name is the name, or not found.                    *)

RECURSIVE LookupByName(_, _)
LookupByName(list, name) ==
    IF list = <<>> THEN [ok |-> FALSE]
    ELSE IF Head(list).Metadata.Name = name THEN [ok |-> TRUE, v |-> Head(list)]
    ELSE LookupByName(Tail(list), name)

LookupSecret(sp, name) == LookupByName(sp.Secrets, name)

LookupFile(sp, name) == LookupByName(sp.Files, name)

LookupVolume(sp, name) == LookupByName(sp.Volumes, name)

----------------------------------------------------------------------------
(* toEnv.  order is the order in which the range over step.Envs visits the  *)
(* keys.                                                                    *)

(* A faulty variant: the reserved key is not held back.                     *)
RECURSIVE EnvLiteralsUnfiltered(_, _)
EnvLiteralsUnfiltered(envs, order) ==
    IF order = <<>> THEN <<>>
    ELSE <<[Name |-> Head(order), Value |-> envs[Head(order)], ValueFrom |-> NilPtr]>>
            \o EnvLiteralsUnfiltered(envs, Tail(order))

RECURSIVE EnvLiterals(_, _)
EnvLiterals(envs, order) ==
    IF order = <<>> THEN <<>>
    ELSE LET k == Head(order)
             rest == EnvLiterals(envs, Tail(order))
         IN IF k # envAutomountServiceAccountToken
            THEN <<[Name |-> k, Value |-> envs[k], ValueFrom |-> NilPtr]>> \o rest
            ELSE rest

EnvNode ==
    [Name |-> "KUBERNETES_NODE", Value |-> "",
     ValueFrom |-> Ptr([FieldRef |-> Ptr([FieldPath |-> "spec.nodeName"]),
                        SecretKeyRef |-> NilPtr])]

(* A faulty variant: a secret that is not found ends the loop (break for    *)
(* continue).                                                               *)
RECURSIVE EnvSecretsBreak(_, _)
EnvSecretsBreak(sp, secrets) ==
    IF secrets = <<>> THEN <<>>
    ELSE LET secret == Head(secrets)
             look == LookupSecret(sp, secret.Name)
         IN IF ~look.ok THEN <<>>
            ELSE <<[Name |-> secret.Env, Value |-> "",
                    ValueFrom |-> Ptr([FieldRef |-> NilPtr,
                        SecretKeyRef |-> Ptr([Name |-> look.v.Metadata.UID,
                                              Key |-> look.v.Metadata.UID,
                                              Optional |-> Ptr(TRUE)])])]>>
                 \o EnvSecretsBreak(sp, Tail(secrets))

RECURSIVE EnvSecrets(_, _)
EnvSecrets(sp, secrets) ==
    IF secrets = <<>> THEN <<>>
    ELSE LET secret == Head(secrets)
             look == LookupSecret(sp, secret.Name)
             rest == EnvSecrets(sp, Tail(secrets))
         IN IF ~look.ok THEN rest
            ELSE <<[Name |-> secret.Env, Value |-> "",
                    ValueFrom |-> Ptr([FieldRef |-> NilPtr,
                        SecretKeyRef |-> Ptr([Name |-> look.v.Metadata.UID,
                                              Key |-> look.v.Metadata.UID,
                                              Optional |-> Ptr(TRUE)])])]>> \o rest

toEnv(sp, st, order) ==
    EnvLiterals(st.Envs, order) \o <<EnvNode>> \o EnvSecrets(sp, st.Secrets)

----------------------------------------------------------------------------
(* toPullPolicy, toSecret, toDNS, stringptr.                                *)

toPullPolicy(from) ==
    CASE from = "PullAlways" -> "Always"
      [] from = "PullNever" -> "Never"
      [] from = "PullIfNotExists" -> "IfNotPresent"
      [] OTHER -> "IfNotPresent"

toSecret(sp, from) ==
    [ObjectMeta |-> [Name |-> from.Metadata.UID],
     Type |-> "Opaque",
     StringData |-> (from.Metadata.UID :> from.Data)]

(* strings.Replace(i, "_", "-", -1) on the characters of i.                 *)
toDNS(i) == [k \in DOMAIN i |-> IF i[k] = "_" THEN "-" ELSE i[k]]

stringptr(v) == Ptr(v)

----------------------------------------------------------------------------
(* path.Base, path.Dir and filepath.Join.                                   *)

PathBase(p) == IF p = <<>> THEN "/" ELSE p[Len(p)]

RECURSIVE RenderPath(_)
RenderPath(p) == IF p = <<>> THEN "" ELSE "/" \o Head(p) \o RenderPath(Tail(p))

PathDir(p) == IF Len(p) <= 1 THEN "/" ELSE RenderPath(SubSeq(p, 1, Len(p) - 1))

(* filepath.Join drops its empty elements and joins the others with "/".    *)
RECURSIVE JoinPath(_)
JoinPath(elems) ==
    IF elems = <<>> THEN ""
    ELSE LET rest == JoinPath(Tail(elems))
         IN IF Head(elems) = "" THEN rest
            ELSE IF rest = "" THEN Head(elems)
            ELSE Head(elems) \o "/" \o rest

----------------------------------------------------------------------------
(* Config (file) volumes and their mounts.                                  *)

RECURSIVE ConfigVolumes(_, _)
ConfigVolumes(sp, files) ==
    IF files = <<>> THEN <<>>
    ELSE LET mount == Head(files)
             look == LookupFile(sp, mount.Name)
             rest == ConfigVolumes(sp, Tail(files))
         IN IF ~look.ok THEN rest
            ELSE <<[Name |-> look.v.Metadata.UID,
                    HostPath |-> NilPtr,
                    Secret |-> NilPtr,
                    ConfigMap |-> Ptr([Name |-> look.v.Metadata.UID,
                                       Optional |-> Ptr(FALSE),
                                       Items |-> <<[Key |-> look.v.Metadata.UID,
                                                    Path |-> PathBase(mount.Path),
                                                    Mode |-> Ptr(mount.Mode)]>>])]>>
                 \o rest

toConfigVolumes(sp, st) == ConfigVolumes(sp, st.Files)

RECURSIVE ConfigMounts(_, _)
ConfigMounts(sp, files) ==
    IF files = <<>> THEN <<>>
    ELSE LET mount == Head(files)
             look == LookupFile(sp, mount.Name)
             rest == ConfigMounts(sp, Tail(files))
         IN IF ~look.ok THEN rest
            ELSE <<[Name |-> look.v.Metadata.UID,
                    MountPath |-> PathDir(mount.Path),
                    SubPath |-> ""]>> \o rest

toConfigMounts(sp, st) == ConfigMounts(sp, st.Files)

----------------------------------------------------------------------------
(* Host-path and secret volumes and their mounts.                           *)

toHostPathVolume(sp, vol) ==
    LET path == IF ~vol.EmptyDir.nil
                THEN JoinPath(<<"/tmp", "drone", sp.Metadata.Namespace, vol.Metadata.UID>>)
                ELSE vol.HostPath.v.Path
    IN [Name |-> vol.Metadata.UID,
        HostPath |-> Ptr([Path |-> path, Type |-> Ptr("DirectoryOrCreate")]),
        Secret |-> NilPtr,
        ConfigMap |-> NilPtr]

RECURSIVE SecretVolumes(_, _, _)
SecretVolumes(sp, vol, items) ==
    IF items = <<>> THEN <<>>
    ELSE LET item == Head(items)
             secretName == vol.Metadata.Name \o "-" \o vol.Secret.v.Name \o "-" \o item.Key
             look == LookupSecret(sp, secretName)
             rest == SecretVolumes(sp, vol, Tail(items))
         IN IF ~look.ok THEN rest
            ELSE <<[Name |-> vol.Metadata.UID \o "-" \o item.Key,
                    HostPath |-> NilPtr,
                    Secret |-> Ptr([SecretName |-> look.v.Metadata.UID,
                                    Items |-> <<[Key |-> look.v.Metadata.UID,
                                                 Path |-> item.Path,
                                                 Mode |-> item.Mode]>>]),
                    ConfigMap |-> NilPtr]>> \o rest

toSecretVolumes(sp, vol) == SecretVolumes(sp, vol, vol.Secret.v.Items)

(* What one entry of step.Volumes adds to the volume list.                  *)
VolumesOfMount(sp, mount) ==
    LET look == LookupVolume(sp, mount.Name)
    IN IF ~look.ok THEN <<>>
       ELSE IF ~look.v.EmptyDir.nil \/ ~look.v.HostPath.nil
            THEN <<toHostPathVolume(sp, look.v)>>
       ELSE IF ~look.v.Secret.nil THEN toSecretVolumes(sp, look.v)
       ELSE <<>>

RECURSIVE Volumes(_, _)
Volumes(sp, mounts) ==
    IF mounts = <<>> THEN <<>>
    ELSE VolumesOfMount(sp, Head(mounts)) \o Volumes(sp, Tail(mounts))

toVolumes(sp, st) == Volumes(sp, st.Volumes)

(* A faulty variant: every item is mounted at the declared path itself.     *)
SecretItemMountsAtRoot(vol, mount) ==
    [i \in 1..Len(vol.Secret.v.Items) |->
        LET item == vol.Secret.v.Items[i]
        IN [Name |-> vol.Metadata.UID \o "-" \o item.Key,
            MountPath |-> mount.Path,
            SubPath |-> item.Path]]

SecretItemMounts(vol, mount) ==
    [i \in 1..Len(vol.Secret.v.Items) |->
        LET item == vol.Secret.v.Items[i]
        IN [Name |-> vol.Metadata.UID \o "-" \o item.Key,
            MountPath |-> mount.Path \o "/" \o item.Path,
            SubPath |-> item.Path]]

(* What one entry of step.Volumes adds to the mount list.                   *)
MountsOfMount(sp, mount) ==
    LET look == LookupVolume(sp, mount.Name)
    IN IF ~look.ok THEN <<>>
       ELSE IF ~look.v.Secret.nil THEN SecretItemMounts(look.v, mount)
       ELSE <<[Name |-> look.v.Metadata.UID, MountPath |-> mount.Path, SubPath |-> ""]>>

RECURSIVE VolumeMounts(_, _)
VolumeMounts(sp, mounts) ==
    IF mounts = <<>> THEN <<>>
    ELSE MountsOfMount(sp, Head(mounts)) \o VolumeMounts(sp, Tail(mounts))

toVolumeMounts(sp, st) == VolumeMounts(sp, st.Volumes)

----------------------------------------------------------------------------
(* strconv.Itoa and strconv.ParseBool.                                      *)

DigitChars == <<"0", "1", "2", "3", "4", "5", "6", "7", "8", "9">>

RECURSIVE UintDigits(_)
UintDigits(n) ==
    IF n < 10 THEN <<DigitChars[n + 1]>>
    ELSE UintDigits(n \div 10) \o <<DigitChars[(n % 10) + 1]>>

Itoa(n) == IF n < 0 THEN <<"-">> \o UintDigits(-n) ELSE UintDigits(n)

ParseBool(str) ==
    CASE str \in {"1", "t", "T", "TRUE", "true", "True"} -> [v |-> TRUE, err |-> FALSE]
      [] str \in {"0", "f", "F", "FALSE", "false", "False"} -> [v |-> FALSE, err |-> FALSE]
      [] OTHER -> [v |-> FALSE, err |-> TRUE]

----------------------------------------------------------------------------
(* toPorts, toNamespace, toResources.                                       *)

toPorts(st) ==
    IF Len(st.Docker.Ports) = 0 THEN <<>>
    ELSE [i \in 1..Len(st.Docker.Ports) |-> [ContainerPort |-> st.Docker.Ports[i].Port]]

(* Labels is the specification's own map: the reference is copied.          *)
toNamespace(sp) ==
    Ptr([ObjectMeta |-> [Name |-> sp.Metadata.Namespace,
                         Labels |-> sp.Metadata.Labels]])

NewQuantity(value, format) == [Value |-> value, Scale |-> 0, Format |-> format]

NewMilliQuantity(value, format) == [Value |-> value, Scale |-> -3, Format |-> format]

EmptyMap == [k \in {} |-> 0]

(* m[k] = v on a Go map.                                                    *)
MapSet(m, k, v) == (k :> v) @@ m

(* A faulty variant: zero passes.                                           *)
NonNegative(x) == x >= 0

Positive(x) == x > 0

ResourceList(r) ==
    LET withMemory == IF Positive(r.Memory)
                      THEN MapSet(EmptyMap, "memory", NewQuantity(r.Memory, "BinarySI"))
                      ELSE EmptyMap
    IN IF Positive(r.CPU)
       THEN MapSet(withMemory, "cpu", NewMilliQuantity(r.CPU, "DecimalSI"))
       ELSE withMemory

toResources(st) ==
    [Limits |-> IF ~st.Resources.nil /\ ~st.Resources.v.Limits.nil
                THEN Ptr(ResourceList(st.Resources.v.Limits.v))
                ELSE NilPtr,
     Requests |-> IF ~st.Resources.nil /\ ~st.Resources.v.Requests.nil
                  THEN Ptr(ResourceList(st.Resources.v.Requests.v))
                  ELSE NilPtr]

----------------------------------------------------------------------------
(* toPod.  envOrder and scanOrder are the orders of its two ranges over     *)
(* step.Envs.                                                               *)

(* A faulty variant: the first pair visited is parsed, whatever its key.    *)
AutomountScanAnyKey(envs, order) ==
    IF order = <<>> THEN FALSE ELSE ParseBool(envs[Head(order)]).v

RECURSIVE AutomountScan(_, _)
AutomountScan(envs, order) ==
    IF order = <<>> THEN FALSE
    ELSE IF Head(order) = envAutomountServiceAccountToken
         THEN ParseBool(envs[Head(order)]).v
         ELSE AutomountScan(envs, Tail(order))

toPod(sp, st, envOrder, scanOrder) ==
    LET volumes == toVolumes(sp, st) \o toConfigVolumes(sp, st)
        mounts == toVolumeMounts(sp, st) \o toConfigMounts(sp, st)
        pullSecrets == IF Len(sp.Docker.Auths) > 0
                       THEN <<[Name |-> "docker-auth-config"]>>
                       ELSE <<>>
        automountServiceAccountToken == AutomountScan(st.Envs, scanOrder)
    IN Ptr([ObjectMeta |-> [Name |-> st.Metadata.UID,
                            Namespace |-> st.Metadata.Namespace,
                            Labels |-> st.Metadata.Labels],
            Spec |-> [AutomountServiceAccountToken |-> Ptr(automountServiceAccountToken),
                      RestartPolicy |-> "Never",
                      Containers |-> <<[Name |-> st.Metadata.UID,
                                        Image |-> st.Docker.Image,
                                        ImagePullPolicy |-> toPullPolicy(st.Docker.PullPolicy),
                                        Command |-> st.Docker.Command,
                                        Args |-> st.Docker.Args,
                                        WorkingDir |-> st.WorkingDir,
                                        SecurityContext |->
                                            Ptr([Privileged |-> st.Docker.Privileged]),
                                        Env |-> toEnv(sp, st, envOrder),
                                        VolumeMounts |-> mounts,
                                        Ports |-> toPorts(st),
                                        Resources |-> toResources(st)]>>,
                      ImagePullSecrets |-> pullSecrets,
                      Volumes |-> volumes]])

----------------------------------------------------------------------------
(* toService.                                                               *)

(* A faulty variant: the host port is the target even when it is zero.      *)
ServicePortNoDefault(p) ==
    [Name |-> Itoa(p.Port), Port |-> p.Port, TargetPort |-> [IntVal |-> p.Host]]

ServicePort(p) ==
    LET source == p.Port
        target == IF p.Host = 0 THEN source ELSE p.Host
    IN [Name |-> Itoa(source), Port |-> source, TargetPort |-> [IntVal |-> target]]

(* A variant that returns no object for a step without ports.              *)
toServiceNilWithoutPorts(sp, st) ==
    IF Len(st.Docker.Ports) = 0 THEN NilPtr
    ELSE Ptr([ObjectMeta |-> [Name |-> toDNS(st.Metadata.Name),
                              Namespace |-> st.Metadata.Namespace],
              Spec |-> [Type |-> "ClusterIP",
                        Selector |-> ("io.drone.step.name" :> st.Metadata.Name),
                        Ports |-> [i \in 1..Len(st.Docker.Ports) |->
                                      ServicePort(st.Docker.Ports[i])]]])

toService(sp, st) ==
    Ptr([ObjectMeta |-> [Name |-> toDNS(st.Metadata.Name),
                         Namespace |-> st.Metadata.Namespace],
         Spec |-> [Type |-> "ClusterIP",
                   Selector |-> ("io.drone.step.name" :> st.Metadata.Name),
                   Ports |-> [i \in 1..Len(st.Docker.Ports) |->
                                 ServicePort(st.Docker.Ports[i])]]])

----------------------------------------------------------------------------
(* The inputs.  The heap holds what the code reaches by reference: the two  *)
(* label maps, the step's command and argument arrays, and the field        *)
(* step.Docker.Privileged, whose address toPod takes.  In spec and step     *)
(* these fields hold the address of their cell.                             *)

AddrSpecLabels == "spec.Metadata.Labels"
AddrStepLabels == "step.Metadata.Labels"
AddrPrivileged == "step.Docker.Privileged"
AddrCommand == "step.Docker.Command"
AddrArgs == "step.Docker.Args"

Entity(name) == [Metadata |-> [Name |-> name, UID |-> "uid-" \o name], Data |-> "data"]

VolumeEntity(name, emptyDir, hostPath, secret) ==
    [Metadata |-> [Name |-> name, UID |-> "uid-" \o name],
     EmptyDir |-> emptyDir, HostPath |-> hostPath, Secret |-> secret]

DefaultSpec ==
    [Metadata |-> [Namespace |-> "ns1", Labels |-> AddrSpecLabels],
     Secrets |-> <<>>, Files |-> <<>>, Volumes |-> <<>>,
     Docker |-> [Auths |-> <<>>]]

DefaultStep ==
    [Metadata |-> [UID |-> "uid-build", Name |-> <<"b", "_", "t">>,
                   Namespace |-> "ns1", Labels |-> AddrStepLabels],
     Envs |-> EmptyMap, Secrets |-> <<>>, Files |-> <<>>, Volumes |-> <<>>,
     Docker |-> [Image |-> "golang", PullPolicy |-> "PullAlways",
                 Command |-> AddrCommand, Args |-> AddrArgs,
                 Privileged |-> AddrPrivileged, Ports |-> <<>>],
     Resources |-> NilPtr,
     WorkingDir |-> "/drone/src"]

DefaultHeap ==
    (AddrSpecLabels :> ("io.drone.build" :> "1")) @@
    (AddrStepLabels :> ("io.drone.step.name" :> "build")) @@
    (AddrPrivileged :> FALSE) @@
    (AddrCommand :> <<"go">>) @@
    (AddrArgs :> <<"test">>)

(* Nothing has been compiled yet: each output variable is the sequence of   *)
(* the values returned so far by its function (the latest only).            *)
NoOutput ==
    /\ pod = <<>>
    /\ svc = <<>>
    /\ ns = <<>>
    /\ last = "none"

----------------------------------------------------------------------------
(* Input domains of the specifications.                                     *)

EnvKeys == {"GOOS", "KUBERNETES_NODE", envAutomountServiceAccountToken}

EnvValues == {"true", "0", "yes"}

EnvMaps == UNION {[K -> EnvValues] : K \in SUBSET EnvKeys}

SecretRefs ==
    {[Name |-> "token", Env |-> "TOKEN"],
     [Name |-> "db", Env |-> envAutomountServiceAccountToken],
     [Name |-> "gone", Env |-> "GONE"]}

FileRefs ==
    {[Name |-> "netrc", Path |-> <<"root", ".netrc">>, Mode |-> 384],
     [Name |-> "conf", Path |-> <<"etc", "app", "app.conf">>, Mode |-> 420],
     [Name |-> "gone", Path |-> <<"gone">>, Mode |-> 420]}

VolumeRefs ==
    {[Name |-> "v1", Path |-> "/m1"],
     [Name |-> "v2", Path |-> "/m2"],
     [Name |-> "gone", Path |-> "/m3"]}

SecretItems ==
    {[Key |-> "k1", Path |-> "p1", Mode |-> Ptr(420)],
     [Key |-> "k2", Path |-> "p2", Mode |-> NilPtr]}

(* Every shape of a volume: each of EmptyDir, HostPath, Secret set or not.  *)
VolumeShapes(name) ==
    {VolumeEntity(name, e, h, s) :
        e \in {NilPtr, Ptr([Medium |-> ""])},
        h \in {NilPtr, Ptr([Path |-> "/data"])},
        s \in {NilPtr} \cup {Ptr([Name |-> "s", Items |-> its]) :
                                 its \in SeqsUpTo(SecretItems, MaxItems)}}

(* The secrets a secret volume v1 of secret s looks up, registered or not.  *)
ItemSecretLists ==
    {<<>>, <<Entity("v1-s-k1")>>, <<Entity("v1-s-k2")>>,
     <<Entity("v1-s-k1"), Entity("v1-s-k2")>>}

PortSet == {[Port |-> p, Host |-> h] : p \in {0, 80, 8080}, h \in {0, 9000}}

Quantities == {-1, 0, 1, 500}

ResourcePairs == {NilPtr} \cup {Ptr([CPU |-> c, Memory |-> m]) : c, m \in Quantities}

----------------------------------------------------------------------------
(* Initial states: the inputs of one compilation, nothing compiled yet.     *)

(* Secret volumes, volumes of every shape, dangling volume references.      *)
InitVolumes ==
    /\ \E v1 \in VolumeShapes("v1"), secs \in ItemSecretLists :
          spec = [DefaultSpec EXCEPT
                    !.Volumes = <<v1, VolumeEntity("v2", Ptr([Medium |-> ""]), NilPtr, NilPtr)>>,
                    !.Secrets = secs]
    /\ \E mounts \in SeqsUpTo(VolumeRefs, MaxMounts) :
          step = [DefaultStep EXCEPT !.Volumes = mounts]
    /\ heap = DefaultHeap
    /\ NoOutput

(* References of the three kinds, resolving or not.                         *)
RefSpec ==
    [DefaultSpec EXCEPT
        !.Secrets = <<Entity("token"), Entity("db"), Entity("v2-s-k1")>>,
        !.Files = <<Entity("netrc"), Entity("conf")>>,
        !.Volumes = <<VolumeEntity("v1", NilPtr, Ptr([Path |-> "/data"]), NilPtr),
                      VolumeEntity("v2", NilPtr, NilPtr,
                          Ptr([Name |-> "s",
                               Items |-> <<[Key |-> "k1", Path |-> "p1", Mode |-> NilPtr]>>]))>>]

InitRefs ==
    /\ spec = RefSpec
    /\ \E kind \in {"Secrets", "Files", "Volumes"} :
       \E ss \in SeqsUpTo(SecretRefs, IF kind = "Secrets" THEN MaxMounts ELSE 1),
          fs \in SeqsUpTo(FileRefs, IF kind = "Files" THEN MaxMounts ELSE 1),
          vs \in SeqsUpTo(VolumeRefs, IF kind = "Volumes" THEN MaxMounts ELSE 1) :
          step = [DefaultStep EXCEPT !.Secrets = ss, !.Files = fs, !.Volumes = vs]
    /\ heap = DefaultHeap
    /\ NoOutput

(* Declared environments and secret references.                             *)
InitEnv ==
    /\ spec = [DefaultSpec EXCEPT !.Secrets = <<Entity("token"), Entity("db")>>]
    /\ \E envs \in EnvMaps, ss \in SeqsUpTo(SecretRefs, MaxMounts) :
          step = [DefaultStep EXCEPT !.Envs = envs, !.Secrets = ss]
    /\ heap = DefaultHeap
    /\ NoOutput

(* Resource limits and requests.                                            *)
InitResources ==
    /\ spec = DefaultSpec
    /\ \E r \in {NilPtr} \cup {Ptr([Limits |-> l, Requests |-> q]) : l, q \in ResourcePairs} :
          step = [DefaultStep EXCEPT !.Resources = r]
    /\ heap = DefaultHeap
    /\ NoOutput

(* Declared ports.                                                          *)
InitPorts ==
    /\ spec = DefaultSpec
    /\ \E ports \in SeqsUpTo(PortSet, MaxPorts) :
          step = [DefaultStep EXCEPT !.Docker.Ports = ports]
    /\ heap = DefaultHeap
    /\ NoOutput

(* Inputs whose referenced parts the caller and the outputs may write.      *)
InitAlias ==
    /\ spec = DefaultSpec
    /\ \E ports \in SeqsUpTo(PortSet, 1) :
          step = [DefaultStep EXCEPT !.Docker.Ports = ports]
    /\ \E priv \in BOOLEAN : heap = [DefaultHeap EXCEPT ![AddrPrivileged] = priv]
    /\ NoOutput

----------------------------------------------------------------------------
(* The calls.                                                               *)

CallToPod ==
    /\ \E envOrder \in Orders(DOMAIN step.Envs), scanOrder \in Orders(DOMAIN step.Envs) :
          pod' = <<toPod(spec, step, envOrder, scanOrder)>>
    /\ last' = "toPod"
    /\ UNCHANGED <<spec, step, heap, svc, ns>>

CallToService ==
    /\ svc' = <<toService(spec, step)>>
    /\ last' = "toService"
    /\ UNCHANGED <<spec, step, heap, pod, ns>>

CallToNamespace ==
    /\ ns' = <<toNamespace(spec)>>
    /\ last' = "toNamespace"
    /\ UNCHANGED <<spec, step, heap, pod, svc>>

Next == CallToPod \/ CallToService \/ CallToNamespace

SpecVolumes == InitVolumes /\ [][Next]_vars

SpecRefs == InitRefs /\ [][Next]_vars

SpecEnv == InitEnv /\ [][Next]_vars

SpecResources == InitResources /\ [][Next]_vars

SpecPorts == InitPorts /\ [][Next]_vars

----------------------------------------------------------------------------
(* Writes after a call: through a returned object, or by the caller to its  *)
(* own step.  A label is set as in obj.Labels["touched"] = "yes"; the       *)
(* privileged flag is assigned through the pointer the object holds.        *)

WritePodLabel ==
    /\ pod # <<>>
    /\ heap' = [heap EXCEPT ![pod[1].v.ObjectMeta.Labels] = MapSet(@, "touched", "yes")]
    /\ last' = "pod.Labels"
    /\ UNCHANGED <<spec, step, pod, svc, ns>>

WritePodPrivileged ==
    /\ pod # <<>>
    /\ heap' = [heap EXCEPT
                  ![pod[1].v.Spec.Containers[1].SecurityContext.v.Privileged] = ~@]
    /\ last' = "pod.Privileged"
    /\ UNCHANGED <<spec, step, pod, svc, ns>>

WriteNamespaceLabel ==
    /\ ns # <<>>
    /\ heap' = [heap EXCEPT ![ns[1].v.ObjectMeta.Labels] = MapSet(@, "touched", "yes")]
    /\ last' = "ns.Labels"
    /\ UNCHANGED <<spec, step, pod, svc, ns>>

WriteServiceSelector ==
    /\ svc # <<>>
    /\ svc' = <<Ptr([svc[1].v EXCEPT !.Spec.Selector = MapSet(@, "touched", "yes")])>>
    /\ last' = "svc.Selector"
    /\ UNCHANGED <<spec, step, heap, pod, ns>>

WriteStepPrivileged ==
    /\ heap' = [heap EXCEPT ![step.Docker.Privileged] = ~@]
    /\ last' = "step.Privileged"
    /\ UNCHANGED <<spec, step, pod, svc, ns>>

NextAlias ==
    \/ CallToPod
    \/ CallToService
    \/ CallToNamespace
    \/ WritePodLabel
    \/ WritePodPrivileged
    \/ WriteNamespaceLabel
    \/ WriteServiceSelector
    \/ WriteStepPrivileged

SpecAlias == InitAlias /\ [][NextAlias]_vars

----------------------------------------------------------------------------
(* What an observer sees of the inputs and of the returned objects: every   *)
(* address replaced by the content of its cell.                             *)

SpecView == [spec EXCEPT !.Metadata.Labels = heap[@]]

StepView ==
    [step EXCEPT !.Metadata.Labels = heap[@],
                 !.Docker.Command = heap[@],
                 !.Docker.Args = heap[@],
                 !.Docker.Privileged = heap[@]]

PodView ==
    IF pod = <<>> THEN <<>>
    ELSE <<[pod[1].v EXCEPT
              !.ObjectMeta.Labels = heap[@],
              !.Spec.Containers[1].Command = heap[@],
              !.Spec.Containers[1].Args = heap[@],
              !.Spec.Containers[1].SecurityContext.v.Privileged = heap[@]]>>

NamespaceView ==
    IF ns = <<>> THEN <<>> ELSE <<[ns[1].v EXCEPT !.ObjectMeta.Labels = heap[@]]>>

ServiceView == svc

----------------------------------------------------------------------------
(* Vocabulary of the properties.                                            *)

RECURSIVE Flatten(_)
Flatten(ss) == IF ss = <<>> THEN <<>> ELSE Head(ss) \o Flatten(Tail(ss))

Names(list) == {list[i].Name : i \in DOMAIN list}

ThePod == pod[1].v

TheContainer == ThePod.Spec.Containers[1]

TheService == svc[1].v

(* What toVolumes / toVolumeMounts emit for the i-th entry of step.Volumes  *)
(* alone.                                                                   *)
EmittedVolumes(i) == toVolumes(spec, [step EXCEPT !.Volumes = <<step.Volumes[i]>>])

EmittedMounts(i) == toVolumeMounts(spec, [step EXCEPT !.Volumes = <<step.Volumes[i]>>])

ResolvedVolume(i) == LookupVolume(spec, step.Volumes[i].Name)

(* A volume of kind Secret: Secret is its one tag.                          *)
IsSecretKind(vol) == ~vol.Secret.nil /\ vol.EmptyDir.nil /\ vol.HostPath.nil

IsNoKind(vol) == vol.Secret.nil /\ vol.EmptyDir.nil /\ vol.HostPath.nil

ItemSecretFound(vol, item) ==
    \E k \in DOMAIN spec.Secrets :
        spec.Secrets[k].Metadata.Name =
            vol.Metadata.Name \o "-" \o vol.Secret.v.Name \o "-" \o item.Key

SecretMountsAsClaimed(i) ==
    LET vol == ResolvedVolume(i).v
        items == vol.Secret.v.Items
        mounts == EmittedMounts(i)
    IN /\ Len(mounts) = Len(items)
       /\ \A j \in DOMAIN items :
            /\ mounts[j].Name = vol.Metadata.UID \o "-" \o items[j].Key
            /\ mounts[j].MountPath = step.Volumes[i].Path \o "/" \o items[j].Path

C3_AsClaimed ==
    pod # <<>> =>
        \A i \in DOMAIN step.Volumes :
            (ResolvedVolume(i).ok /\ IsNoKind(ResolvedVolume(i).v)) =>
                /\ EmittedVolumes(i) = <<>>
                /\ EmittedMounts(i) = <<>>

(* C10 as claimed: in the pod toPod returns, every mount of the container   *)
(* names a volume of the pod, and every volume of the pod is named by a     *)
(* mount.                                                                   *)
C10_AsClaimed ==
    pod # <<>> => Names(TheContainer.VolumeMounts) = Names(ThePod.Spec.Volumes)

----------------------------------------------------------------------------
(* References that resolve and references that do not.                      *)

Registered(list, name) == \E k \in DOMAIN list : list[k].Metadata.Name = name

ResolvedRefs(list, refs) == SelectSeq(refs, LAMBDA r : Registered(list, r.Name))

(* The UID registered under a name (the names of the checked inputs are     *)
(* unique).                                                                 *)
UIDOf(list, name) ==
    (CHOOSE e \in {list[k] : k \in DOMAIN list} : e.Metadata.Name = name).Metadata.UID

SecretEnvEntries(env) ==
    SelectSeq(env, LAMBDA e : ~e.ValueFrom.nil /\ ~e.ValueFrom.v.SecretKeyRef.nil)

(* C2: an entry of step.Secrets, step.Files or step.Volumes whose name is   *)
(* not registered adds nothing to the environment, to the volumes or to the *)
(* mounts; the entries that resolve are translated in input order; and      *)
(* toPod returns a pod.                                                     *)
C2_ReferenceSkipping ==
    pod # <<>> =>
        LET ss == ResolvedRefs(spec.Secrets, step.Secrets)
            fs == ResolvedRefs(spec.Files, step.Files)
            vs == ResolvedRefs(spec.Volumes, step.Volumes)
            envS == SecretEnvEntries(TheContainer.Env)
            cfgVols == SelectSeq(ThePod.Spec.Volumes, LAMBDA v : ~v.ConfigMap.nil)
            otherVols == SelectSeq(ThePod.Spec.Volumes, LAMBDA v : v.ConfigMap.nil)
            mounts == TheContainer.VolumeMounts
            volMounts == Flatten([j \in DOMAIN vs |-> MountsOfMount(spec, vs[j])])
        IN /\ ~pod[1].nil
           /\ Len(envS) = Len(ss)
           /\ \A j \in DOMAIN ss :
                /\ envS[j].Name = ss[j].Env
                /\ envS[j].ValueFrom.v.SecretKeyRef.v.Name = UIDOf(spec.Secrets, ss[j].Name)
           /\ Len(cfgVols) = Len(fs)
           /\ \A j \in DOMAIN fs :
                /\ cfgVols[j].Name = UIDOf(spec.Files, fs[j].Name)
                /\ cfgVols[j].ConfigMap.v.Items[1].Path = fs[j].Path[Len(fs[j].Path)]
           /\ Len(otherVols) = Len(vs)
           /\ otherVols = Flatten([j \in DOMAIN vs |-> VolumesOfMount(spec, vs[j])])
           /\ Len(mounts) = Len(vs) + Len(fs)
           /\ SubSeq(mounts, 1, Len(vs)) = volMounts
           /\ \A j \in DOMAIN vs :
                mounts[j].MountPath \in {vs[j].Path, vs[j].Path \o "/p1"}
           /\ \A j \in DOMAIN fs :
                mounts[Len(vs) + j].Name = UIDOf(spec.Files, fs[j].Name)

(* C2's case: a compiled pod whose step has a dangling reference of each    *)
(* kind, and a secret reference that resolves after one that does not.      *)
C2_Witness ==
    /\ pod # <<>>
    /\ \E r \in {step.Files[i] : i \in DOMAIN step.Files} : ~Registered(spec.Files, r.Name)
    /\ \E r \in {step.Volumes[i] : i \in DOMAIN step.Volumes} :
          ~Registered(spec.Volumes, r.Name)
    /\ Len(step.Secrets) = 2
    /\ ~Registered(spec.Secrets, step.Secrets[1].Name)
    /\ Registered(spec.Secrets, step.Secrets[2].Name)
    /\ Len(SecretEnvEntries(TheContainer.Env)) = 1

----------------------------------------------------------------------------
(* Services and ports.                                                      *)

DigitValue(c) == CHOOSE d \in 0..9 : DigitChars[d + 1] = c

RECURSIVE DecimalValue(_)
DecimalValue(str) ==
    IF str = <<>> THEN 0
    ELSE 10 * DecimalValue(SubSeq(str, 1, Len(str) - 1)) + DigitValue(str[Len(str)])

(* The decimal numeral of a natural number: digits only, no leading zero.   *)
IsDecimalOf(str, n) ==
    /\ Len(str) >= 1
    /\ \A k \in DOMAIN str : \E d \in 0..9 : DigitChars[d + 1] = str[k]
    /\ (Len(str) > 1 => str[1] # "0")
    /\ DecimalValue(str) = n

(* C4 as claimed: toService produces a service object if and only if the    *)
(* step declares at least one port.                                         *)
C4_AsClaimed ==
    svc # <<>> => (~svc[1].nil <=> Len(step.Docker.Ports) > 0)

(* C4, amended: toService produces exactly one service object for every     *)
(* step, with one service port per declared port; for a step with no        *)
(* declared port the object has an empty port list.                         *)
C4_ServiceAlways ==
    svc # <<>> =>
        /\ Len(svc) = 1
        /\ ~svc[1].nil
        /\ Len(TheService.Spec.Ports) = Len(step.Docker.Ports)

(* C4's case: toService has been called on a step with no declared port.    *)
C4_Witness ==
    /\ svc # <<>>
    /\ Len(step.Docker.Ports) = 0
    /\ ~svc[1].nil
    /\ TheService.Spec.Ports = <<>>

(* C8: toService emits one service port per declared port, in input order,  *)
(* named by the decimal numeral of the declared port, with that port, and   *)
(* with the declared host port as target unless it is zero, then the        *)
(* declared port; toPorts emits the declared port, never the host port.     *)
C8_PortMapping ==
    /\ svc # <<>> =>
         /\ Len(TheService.Spec.Ports) = Len(step.Docker.Ports)
         /\ \A i \in DOMAIN step.Docker.Ports :
              LET p == step.Docker.Ports[i]
                  sp == TheService.Spec.Ports[i]
              IN /\ IsDecimalOf(sp.Name, p.Port)
                 /\ sp.Port = p.Port
                 /\ sp.TargetPort.IntVal = IF p.Host # 0 THEN p.Host ELSE p.Port
    /\ pod # <<>> =>
         /\ Len(TheContainer.Ports) = Len(step.Docker.Ports)
         /\ \A i \in DOMAIN step.Docker.Ports :
              TheContainer.Ports[i].ContainerPort = step.Docker.Ports[i].Port

(* C8's case: a service and a pod compiled from a step with two declared    *)
(* ports, one with a host port and one without.                             *)
C8_Witness ==
    /\ svc # <<>>
    /\ pod # <<>>
    /\ Len(step.Docker.Ports) = 2
    /\ step.Docker.Ports[1].Host # 0
    /\ step.Docker.Ports[1].Port = 8080
    /\ step.Docker.Ports[2].Host = 0
    /\ TheService.Spec.Ports[1].TargetPort.IntVal # TheContainer.Ports[1].ContainerPort
    /\ TheService.Spec.Ports[1].Name = <<"8", "0", "8", "0">>

----------------------------------------------------------------------------
(* The environment and the auto-mount flag.                                 *)

DeclaredKeys == DOMAIN step.Envs \ {envAutomountServiceAccountToken}

IsLiteral(e) == e.ValueFrom.nil

IsFieldRef(e) == ~e.ValueFrom.nil /\ ~e.ValueFrom.v.FieldRef.nil

IsSecretRef(e) == ~e.ValueFrom.nil /\ ~e.ValueFrom.v.SecretKeyRef.nil

TrueLiterals == {"1", "t", "T", "TRUE", "true", "True"}

(* C6: the pod's AutomountServiceAccountToken is true exactly when          *)
(* step.Envs holds the reserved key with a value that parses as true; it is *)
(* false when the key is absent or its value parses as false or does not    *)
(* parse, and toPod returns a pod all the same.                             *)
C6_AutomountFlag ==
    pod # <<>> =>
        /\ ~pod[1].nil
        /\ ~ThePod.Spec.AutomountServiceAccountToken.nil
        /\ ThePod.Spec.AutomountServiceAccountToken.v =
              (/\ envAutomountServiceAccountToken \in DOMAIN step.Envs
               /\ step.Envs[envAutomountServiceAccountToken] \in TrueLiterals)

(* C6's case: a compiled pod whose step gives the reserved key a value that *)
(* is no boolean, beside another pair whose value is true.                  *)
C6_Witness ==
    /\ pod # <<>>
    /\ envAutomountServiceAccountToken \in DOMAIN step.Envs
    /\ step.Envs[envAutomountServiceAccountToken] = "yes"
    /\ "GOOS" \in DOMAIN step.Envs
    /\ step.Envs["GOOS"] = "true"
    /\ ThePod.Spec.AutomountServiceAccountToken.v = FALSE

----------------------------------------------------------------------------
(* Resources.                                                               *)

QuantityKeysAsClaimed(in, out) ==
    IF in.nil THEN out.nil
    ELSE /\ ~out.nil
         /\ DOMAIN out.v \subseteq {"cpu", "memory"}
         /\ ("cpu" \in DOMAIN out.v) <=> (in.v.CPU > 0)
         /\ ("memory" \in DOMAIN out.v) <=> (in.v.Memory > 0)
         /\ \A k \in DOMAIN out.v : out.v[k].Value # 0
         /\ ("cpu" \in DOMAIN out.v) =>
                out.v["cpu"] = [Value |-> in.v.CPU, Scale |-> -3, Format |-> "DecimalSI"]
         /\ ("memory" \in DOMAIN out.v) =>
                out.v["memory"] = [Value |-> in.v.Memory, Scale |-> 0, Format |-> "BinarySI"]

(* C7: in toResources each of limits.cpu, limits.memory, requests.cpu and   *)
(* requests.memory has its key in the output map if and only if its value   *)
(* is strictly positive; zero and negative values yield no key, never a     *)
(* zero-valued entry.                                                       *)
C7_ResourceKeys ==
    pod # <<>> =>
        LET out == TheContainer.Resources
        IN IF step.Resources.nil THEN out.Limits.nil /\ out.Requests.nil
           ELSE /\ QuantityKeysAsClaimed(step.Resources.v.Limits, out.Limits)
                /\ QuantityKeysAsClaimed(step.Resources.v.Requests, out.Requests)

(* C7's case: limits.memory = 0 and limits.cpu = 500 give a limits map      *)
(* whose one key is cpu, of milli-value 500; the requests are negative.     *)
C7_Witness ==
    /\ pod # <<>>
    /\ ~step.Resources.nil
    /\ step.Resources.v.Limits = Ptr([CPU |-> 500, Memory |-> 0])
    /\ step.Resources.v.Requests = Ptr([CPU |-> -1, Memory |-> 1])
    /\ DOMAIN TheContainer.Resources.Limits.v = {"cpu"}
    /\ TheContainer.Resources.Limits.v["cpu"].Value = 500
    /\ DOMAIN TheContainer.Resources.Requests.v = {"memory"}

----------------------------------------------------------------------------
(* Independence of inputs and outputs.                                      *)

InputsKept == SpecView' = SpecView /\ StepView' = StepView

(* C9 as claimed: a call leaves the specification and the step unchanged;   *)
(* a later write to a returned object shows neither in the specification,   *)
(* nor in the step, nor in an object another call returned; a later write   *)
(* to the step shows in no returned object.                                 *)
C9_AsClaimed ==
    [][/\ last' \in {"toPod", "toService", "toNamespace"} => InputsKept
       /\ last' \in {"pod.Labels", "pod.Privileged"} =>
            InputsKept /\ NamespaceView' = NamespaceView /\ ServiceView' = ServiceView
       /\ last' = "ns.Labels" =>
            InputsKept /\ PodView' = PodView /\ ServiceView' = ServiceView
       /\ last' = "svc.Selector" =>
            InputsKept /\ PodView' = PodView /\ NamespaceView' = NamespaceView
       /\ last' = "step.Privileged" =>
            PodView' = PodView /\ NamespaceView' = NamespaceView
                /\ ServiceView' = ServiceView]_vars

============================================================================
